---- MODULE Spec2Model ----
(***************************************************************************)
(* A model of object_pool/pool.py: Pool.open, Pool.close and the           *)
(* context manager Pool.acquire (acquisition, then the release that runs   *)
(* when the borrower's scope exits), run by NumThreads threads.            *)
(*                                                                         *)
(* Every statement of the source at which another thread may run in       *)
(* between is one step.  The Condition's lock is held only inside          *)
(* "with state.lock:" blocks that do nothing but wait() or notify(), so    *)
(* each such block is one step and the lock is free between steps.         *)
(*                                                                         *)
(* The module also models wheel_timer/wheel_timer.py: the timer thread     *)
(* WheelTimer._run and the callers of WheelTimer.add_task.  The pool and   *)
(* the timer share nothing; each has its own specification.                *)
(***************************************************************************)
EXTENDS Integers, Sequences, FiniteSets, TLC

\* Bounds of the model.
NumThreads == 3
MaxPoolSize == 2
MaxObjects == 3
MaxSlots == 2
MaxTicksPerSlot == 2
MaxDelay == 3
MaxTasks == 2

\* The default of the max_size argument (line 15); line 99 falls back to it.
DEFAULT_SIZE == 10

Threads == 1..NumThreads
\* A close() that passes its open check never returns (it spins in its drain
\* loop), so at most one generation per thread is ever created.
Gens == 0..NumThreads
Objects == 1..MaxObjects
\* The tasks given to add_task, numbered in the order of the calls.
Tasks == 1..MaxTasks
\* The list objects of WheelTimer.slots: one per slot, the one the timer thread
\* still refers to, and one per caller that holds a reference.
ListIds == 1..(MaxSlots + 1 + NumThreads)

VARIABLES
    ctor,        \* the max_size argument given to Pool(...) and what __init__ raised
    max_size,    \* Pool.__max_size
    self_state,  \* Pool.__state: the active generation
    nextGen,     \* the next PoolState object __init_state will allocate
    is_open,     \* PoolState.is_open (Event), per generation
    count,       \* PoolState.count (BoundedSemaphore value), per generation
    idle,        \* PoolState.idle (SimpleQueue), per generation
    pc,          \* each thread's position in the source
    state,       \* the local variable `state` of acquire/close (open: the read of self.__state)
    obj,         \* the local variable `obj` of acquire (0: none)
    exc,         \* the exception being handled in the release's except block
    created,     \* number of objects create() has returned; the last one's identity
    discards,    \* number of discard() calls received by each object
    \* History variables: they record what happened, the program never reads them.
    last,        \* the call that returned or raised in the step just taken: its thread
                 \* and outcome (thread 0: the step ended no call)
    window,      \* the borrowers that left their scope while this acquirer was
                 \* between its failed capacity check and its entry into wait()
    missed,      \* one of them has finished its release, notify() included, before
                 \* this acquirer entered wait()
    quiet,       \* close() has replaced the generation and open() was not called since
    afterClose,  \* this acquire started while quiet, and quiet has lasted since
    wokenBy,     \* the object whose idle.put preceded the notify that woke this acquirer
    soloist,     \* the thread whose acquire started with every other thread at rest,
                 \* none of which has taken a step since (0: none)
    \* WheelTimer
    ticks_per_slot, \* WheelTimer.ticks_per_slot
    num_slots,      \* WheelTimer.num_slots (0: no timer was constructed)
    slots,          \* WheelTimer.slots: the list object in each slot
    lists,          \* the contents of each list object
    current_tick,   \* WheelTimer.current_tick
    wt_pc,          \* the timer thread's position in _run
    tasks_to_run,   \* the local variable of _run: a list object (0: none)
    iter,           \* the for loop's iterator: how many items it has yielded
    add_pc,         \* each caller's position in add_task
    slot,           \* the local variable `slot` of add_task
    append_to,      \* the list object that self.slots[slot] evaluated to (0: none)
    task,           \* the argument `task` of add_task (0: none)
    next_task,      \* the number of the next task a caller will pass
    runs            \* how many times each task was called

timer == <<ticks_per_slot, num_slots, slots, lists, current_tick, wt_pc,
           tasks_to_run, iter, add_pc, slot, append_to, task, next_task, runs>>

vars == <<ctor, max_size, self_state, nextGen, is_open, count, idle, pc, state, obj,
          exc, created, discards, last, window, missed, quiet, afterClose, wokenBy,
          soloist, timer>>

pool == <<max_size, self_state, nextGen, is_open, count, idle>>
hist == <<last, window, missed, quiet, afterClose, wokenBy, soloist>>

\* ------------------------------------------------------------------ helpers

\* A thread that is in no pool call, or spinning in close()'s loop.
Quiescent(u) == pc[u] \in {"ready", "c_loop", "c_try"}

\* threading.Condition: the threads blocked in state.lock.wait()
Waiters(g) == {w \in Threads : pc[w] = "waiting" /\ state[w] = g}

\* Mutant: a unit is handed out when none is left.
SemTryAcquireOver(c) ==
    IF c >= 0 THEN [ok |-> TRUE, value |-> c - 1] ELSE [ok |-> FALSE, value |-> c]

\* Mutant: the last unit is never handed out.
SemTryAcquireStrict(c) ==
    IF c > 1 THEN [ok |-> TRUE, value |-> c - 1] ELSE [ok |-> FALSE, value |-> c]

\* BoundedSemaphore.acquire(blocking=False)
SemTryAcquire(c) ==
    IF c > 0 THEN [ok |-> TRUE, value |-> c - 1] ELSE [ok |-> FALSE, value |-> c]

\* Mutant: the unit is not given back.
SemReleaseLost(c, bound) == [ok |-> TRUE, value |-> c]

\* BoundedSemaphore.release(): ValueError when released more often than acquired
SemRelease(c, bound) ==
    IF c >= bound THEN [ok |-> FALSE, value |-> c] ELSE [ok |-> TRUE, value |-> c + 1]

\* Mutant: the head is read and left in the queue.
QueuePeek(q) == [item |-> Head(q), rest |-> q]

\* SimpleQueue.get_nowait() on a non-empty queue
QueueGet(q) == [item |-> Head(q), rest |-> Tail(q)]

\* SimpleQueue.put
QueuePut(q, o) == Append(q, o)

\* Mutant: discard() is called outside a try block.
DiscardUnguarded(raised) == raised

\* Whether an exception raised by discard() leaves the release's except block
\* (lines 199-202 catch Exception and log it).
DiscardPropagates(raised) == FALSE

\* The call of thread t ends with outcome o; `last` shows it until the next step.
Returns(t, o) == last' = [thread |-> t, outcome |-> o]

\* A step that ends no call.
NoReturn == last' = [thread |-> 0, outcome |-> "none"]

\* The soloist stays only while no other thread takes a step.
Solo(t) == soloist' = IF soloist = t THEN t ELSE 0

\* ------------------------------------------------------------------ Init

\* The max_size argument of Pool(...): left out (the parameter's default, None)
\* or an integer.
Args ==
    {[given |-> FALSE, value |-> 0]} \cup
    {[given |-> TRUE, value |-> n] : n \in (-1)..MaxPoolSize}

\* Pool.__init__, lines 97-101.  Line 97 compares the argument with 0 before
\* line 99 replaces None by the default: `None <= 0` raises TypeError.
PoolInit(a) ==
    IF ~a.given THEN [raised |-> "TypeError", max_size |-> 0]
    ELSE IF a.value <= 0 THEN [raised |-> "ValueError", max_size |-> 0]
    ELSE [raised |-> "none",
          max_size |-> IF a.value # 0 THEN a.value ELSE DEFAULT_SIZE]

\* Pool(manager, max_size), then __init_state() (line 102).  When __init__
\* raises there is no pool and no thread can call anything.
PoolNew ==
    /\ ctor \in {[arg |-> a, raised |-> PoolInit(a).raised] : a \in Args}
    /\ max_size = PoolInit(ctor.arg).max_size
    /\ self_state = 0
    /\ nextGen = 1
    /\ is_open = [g \in Gens |-> FALSE]
    /\ count = [g \in Gens |-> max_size]
    /\ idle = [g \in Gens |-> <<>>]
    /\ pc = [t \in Threads |-> IF ctor.raised = "none" THEN "ready" ELSE "no_pool"]
    /\ state = [t \in Threads |-> 0]
    /\ obj = [t \in Threads |-> 0]
    /\ exc = [t \in Threads |-> "none"]
    /\ created = 0
    /\ discards = [o \in Objects |-> 0]
    /\ last = [thread |-> 0, outcome |-> "none"]
    /\ window = [t \in Threads |-> {}]
    /\ missed = [t \in Threads |-> FALSE]
    /\ quiet = FALSE
    /\ afterClose = [t \in Threads |-> FALSE]
    /\ wokenBy = [t \in Threads |-> 0]
    /\ soloist = 0

\* No WheelTimer was constructed.
NoWheelTimer ==
    /\ ticks_per_slot = 0
    /\ num_slots = 0
    /\ slots = <<>>
    /\ lists = [l \in ListIds |-> <<>>]
    /\ current_tick = 0
    /\ wt_pc = "none"
    /\ tasks_to_run = 0
    /\ iter = 0
    /\ add_pc = [t \in Threads |-> "none"]
    /\ slot = [t \in Threads |-> 0]
    /\ append_to = [t \in Threads |-> 0]
    /\ task = [t \in Threads |-> 0]
    /\ next_task = 1
    /\ runs = [k \in Tasks |-> 0]

Init == PoolNew /\ NoWheelTimer

\* ------------------------------------------------------------------ open()

\* line 123, the read of self.__state
OpenRead(t) ==
    /\ pc[t] = "ready"
    /\ NoReturn
    /\ pc' = [pc EXCEPT ![t] = "o_set"]
    /\ state' = [state EXCEPT ![t] = self_state]
    /\ quiet' = FALSE
    /\ afterClose' = [u \in Threads |-> FALSE]
    /\ soloist' = 0
    /\ UNCHANGED <<timer, ctor, pool, obj, exc, created, discards, window, missed, wokenBy>>

\* line 123, is_open.set()
OpenSet(t) ==
    /\ pc[t] = "o_set"
    /\ is_open' = [is_open EXCEPT ![state[t]] = TRUE]
    /\ pc' = [pc EXCEPT ![t] = "ready"]
    /\ state' = [state EXCEPT ![t] = 0]
    /\ Returns(t, "opened")
    /\ Solo(t)
    /\ UNCHANGED <<timer, ctor, max_size, self_state, nextGen, count, idle, obj, exc,
                   created, discards, window, missed, quiet, afterClose, wokenBy>>

\* ------------------------------------------------------------------ close()

\* line 128
CloseRead(t) ==
    /\ pc[t] = "ready"
    /\ NoReturn
    /\ pc' = [pc EXCEPT ![t] = "c_check"]
    /\ state' = [state EXCEPT ![t] = self_state]
    /\ afterClose' = [afterClose EXCEPT ![t] = FALSE]
    /\ soloist' = 0
    /\ UNCHANGED <<timer, ctor, pool, obj, exc, created, discards, window, missed, quiet, wokenBy>>

\* Mutant: close() goes on whatever the flag says.
CloseCheckAlways(t) ==
    /\ pc[t] = "c_check"
    /\ pc' = [pc EXCEPT ![t] = "c_init"]
    /\ NoReturn
    /\ Solo(t)
    /\ UNCHANGED <<timer, ctor, pool, state, obj, exc, created, discards, window, missed, quiet,
                   afterClose, wokenBy>>

\* lines 130-131
CloseCheck(t) ==
    /\ pc[t] = "c_check"
    /\ IF is_open[state[t]]
       THEN /\ pc' = [pc EXCEPT ![t] = "c_init"]
            /\ NoReturn
            /\ UNCHANGED state
       ELSE /\ pc' = [pc EXCEPT ![t] = "ready"]
            /\ state' = [state EXCEPT ![t] = 0]
            /\ Returns(t, "close_noop")
    /\ Solo(t)
    /\ UNCHANGED <<timer, ctor, pool, obj, exc, created, discards, window, missed, quiet,
                   afterClose, wokenBy>>

\* Mutant: the fresh generation starts with its Event set.
InitStateOpen ==
    /\ self_state' = nextGen
    /\ nextGen' = nextGen + 1
    /\ is_open' = [is_open EXCEPT ![nextGen] = TRUE]
    /\ count' = [count EXCEPT ![nextGen] = max_size]
    /\ idle' = [idle EXCEPT ![nextGen] = <<>>]

\* lines 104-110, called at line 133: a fresh PoolState becomes the active generation
InitState ==
    /\ self_state' = nextGen
    /\ nextGen' = nextGen + 1
    /\ is_open' = [is_open EXCEPT ![nextGen] = FALSE]
    /\ count' = [count EXCEPT ![nextGen] = max_size]
    /\ idle' = [idle EXCEPT ![nextGen] = <<>>]

\* line 133
CloseInit(t) ==
    /\ pc[t] = "c_init"
    /\ NoReturn
    /\ InitState
    /\ pc' = [pc EXCEPT ![t] = "c_clear"]
    /\ quiet' = TRUE
    /\ Solo(t)
    /\ UNCHANGED <<timer, ctor, max_size, state, obj, exc, created, discards, window, missed,
                   afterClose, wokenBy>>

\* line 134
CloseClear(t) ==
    /\ pc[t] = "c_clear"
    /\ NoReturn
    /\ is_open' = [is_open EXCEPT ![state[t]] = FALSE]
    /\ pc' = [pc EXCEPT ![t] = "c_loop"]
    /\ Solo(t)
    /\ UNCHANGED <<timer, ctor, max_size, self_state, nextGen, count, idle, state, obj, exc,
                   created, discards, window, missed, quiet, afterClose, wokenBy>>

\* line 136: `while True:` enters the try block
CloseLoop(t) ==
    /\ pc[t] = "c_loop"
    /\ NoReturn
    /\ pc' = [pc EXCEPT ![t] = "c_try"]
    /\ UNCHANGED <<timer, ctor, pool, state, obj, exc, created, discards, window, missed, quiet, afterClose, wokenBy, soloist>>

\* lines 137-142: the try body is `pass`: nothing is taken from idle, nothing
\* raises queue.Empty, so the break of line 140 is never taken and the loop
\* starts over.  Lines 144-145 (notify_all) are never reached.
CloseTry(t) ==
    /\ pc[t] = "c_try"
    /\ NoReturn
    /\ pc' = [pc EXCEPT ![t] = "c_loop"]
    /\ UNCHANGED <<timer, ctor, pool, state, obj, exc, created, discards, window, missed, quiet, afterClose, wokenBy, soloist>>

\* ------------------------------------------------------------------ acquire()

\* line 153
AcqStart(t) ==
    /\ pc[t] = "ready"
    /\ NoReturn
    /\ pc' = [pc EXCEPT ![t] = "a_check"]
    /\ state' = [state EXCEPT ![t] = self_state]
    /\ afterClose' = [afterClose EXCEPT ![t] = quiet]
    /\ soloist' = IF \A u \in Threads \ {t} : Quiescent(u) THEN t ELSE 0
    /\ UNCHANGED <<timer, ctor, pool, obj, exc, created, discards, window, missed, quiet, wokenBy>>

\* lines 155-157
AcqCheck(t) ==
    /\ pc[t] = "a_check"
    /\ IF is_open[state[t]]
       THEN /\ pc' = [pc EXCEPT ![t] = "a_get"]
            /\ NoReturn
            /\ UNCHANGED <<timer, ctor, state, wokenBy>>
       ELSE /\ pc' = [pc EXCEPT ![t] = "ready"]
            /\ state' = [state EXCEPT ![t] = 0]
            /\ Returns(t, "PoolClosedError")
            /\ wokenBy' = [wokenBy EXCEPT ![t] = 0]
    /\ Solo(t)
    /\ UNCHANGED <<timer, ctor, pool, obj, exc, created, discards, window, missed, quiet, afterClose>>

\* Mutant: the capacity is tried before the idle queue.
AcqGetCapacityFirst(t) ==
    /\ pc[t] = "a_get"
    /\ IF idle[state[t]] # <<>> /\ count[state[t]] = 0
       THEN /\ obj' = [obj EXCEPT ![t] = QueueGet(idle[state[t]]).item]
            /\ idle' = [idle EXCEPT ![state[t]] = QueueGet(idle[state[t]]).rest]
            /\ pc' = [pc EXCEPT ![t] = "holding"]
            /\ Returns(t, "acquired")
            /\ UNCHANGED wokenBy
       ELSE /\ pc' = [pc EXCEPT ![t] = "a_cap"]
            /\ wokenBy' = [wokenBy EXCEPT ![t] = 0]
            /\ NoReturn
            /\ UNCHANGED <<timer, ctor, obj, idle>>
    /\ Solo(t)
    /\ UNCHANGED <<timer, ctor, max_size, self_state, nextGen, is_open, count, state, exc,
                   created, discards, window, missed, quiet, afterClose>>

\* lines 160-165
AcqGet(t) ==
    /\ pc[t] = "a_get"
    /\ IF idle[state[t]] # <<>>
       THEN /\ obj' = [obj EXCEPT ![t] = QueueGet(idle[state[t]]).item]
            /\ idle' = [idle EXCEPT ![state[t]] = QueueGet(idle[state[t]]).rest]
            /\ pc' = [pc EXCEPT ![t] = "holding"]
            /\ Returns(t, "acquired")
            /\ UNCHANGED wokenBy
       ELSE /\ pc' = [pc EXCEPT ![t] = "a_cap"]
            /\ wokenBy' = [wokenBy EXCEPT ![t] = 0]
            /\ NoReturn
            /\ UNCHANGED <<timer, ctor, obj, idle>>
    /\ Solo(t)
    /\ UNCHANGED <<timer, ctor, max_size, self_state, nextGen, is_open, count, state, exc,
                   created, discards, window, missed, quiet, afterClose>>

\* line 168
AcqCap(t) ==
    /\ pc[t] = "a_cap"
    /\ NoReturn
    /\ count' = [count EXCEPT ![state[t]] = SemTryAcquire(count[state[t]]).value]
    /\ pc' = [pc EXCEPT ![t] =
                IF SemTryAcquire(count[state[t]]).ok THEN "a_create" ELSE "a_wait"]
    /\ Solo(t)
    /\ UNCHANGED <<timer, ctor, max_size, self_state, nextGen, is_open, idle, state, obj, exc,
                   created, discards, window, missed, quiet, afterClose, wokenBy>>

\* lines 170-172: create() returns a new object
AcqCreateOk(t) ==
    /\ pc[t] = "a_create"
    /\ created < MaxObjects
    /\ created' = created + 1
    /\ obj' = [obj EXCEPT ![t] = created + 1]
    /\ pc' = [pc EXCEPT ![t] = "holding"]
    /\ Returns(t, "acquired")
    /\ Solo(t)
    /\ UNCHANGED <<timer, ctor, pool, state, exc, discards, window, missed, quiet, afterClose, wokenBy>>

\* lines 170, 173: create() raises
AcqCreateRaise(t) ==
    /\ pc[t] = "a_create"
    /\ NoReturn
    /\ pc' = [pc EXCEPT ![t] = "a_fail"]
    /\ Solo(t)
    /\ UNCHANGED <<timer, ctor, pool, state, obj, exc, created, discards, window, missed, quiet,
                   afterClose, wokenBy>>

\* Mutant: the reserved unit is kept when create() raised.
AcqCreateFailKeep(t) ==
    /\ pc[t] = "a_fail"
    /\ count' = count
    /\ Returns(t, "PoolFullError")
    /\ pc' = [pc EXCEPT ![t] = "ready"]
    /\ state' = [state EXCEPT ![t] = 0]
    /\ Solo(t)
    /\ UNCHANGED <<timer, ctor, max_size, self_state, nextGen, is_open, idle, obj, exc,
                   created, discards, window, missed, quiet, afterClose, wokenBy>>

\* lines 174-175
AcqCreateFail(t) ==
    /\ pc[t] = "a_fail"
    /\ count' = [count EXCEPT ![state[t]] = SemRelease(count[state[t]], max_size).value]
    /\ Returns(t, IF SemRelease(count[state[t]], max_size).ok
                  THEN "PoolFullError" ELSE "ValueError")
    /\ pc' = [pc EXCEPT ![t] = "ready"]
    /\ state' = [state EXCEPT ![t] = 0]
    /\ Solo(t)
    /\ UNCHANGED <<timer, ctor, max_size, self_state, nextGen, is_open, idle, obj, exc,
                   created, discards, window, missed, quiet, afterClose, wokenBy>>

\* lines 178-180: take the lock and block in wait()
AcqWait(t) ==
    /\ pc[t] = "a_wait"
    /\ NoReturn
    /\ pc' = [pc EXCEPT ![t] = "waiting"]
    /\ window' = [window EXCEPT ![t] = {}]
    /\ Solo(t)
    /\ UNCHANGED <<timer, ctor, pool, state, obj, exc, created, discards, missed, quiet,
                   afterClose, wokenBy>>

\* ------------------------------------------------------------------ release

\* The borrower's scope exits: lines 184-187
RelCheck1(t) ==
    /\ pc[t] = "holding"
    /\ NoReturn
    /\ IF is_open[state[t]]
       THEN /\ pc' = [pc EXCEPT ![t] = "r_recycle"]
            /\ UNCHANGED exc
       ELSE /\ pc' = [pc EXCEPT ![t] = "r_discard"]
            /\ exc' = [exc EXCEPT ![t] = "PoolClosedError"]
    /\ wokenBy' = [wokenBy EXCEPT ![t] = 0]
    /\ window' = [u \in Threads |->
                    IF pc[u] = "a_wait" /\ state[u] = state[t]
                    THEN window[u] \cup {t} ELSE window[u]]
    /\ afterClose' = [afterClose EXCEPT ![t] = FALSE]
    /\ soloist' = 0
    /\ UNCHANGED <<timer, ctor, pool, state, obj, created, discards, missed, quiet>>

\* line 189: recycle() returns, or raises into the except block of line 197
RelRecycle(t) ==
    /\ pc[t] = "r_recycle"
    /\ NoReturn
    /\ \E raised \in BOOLEAN :
          IF raised
          THEN /\ pc' = [pc EXCEPT ![t] = "r_discard"]
               /\ exc' = [exc EXCEPT ![t] = "RecycleError"]
          ELSE /\ pc' = [pc EXCEPT ![t] = "r_check2"]
               /\ UNCHANGED exc
    /\ Solo(t)
    /\ UNCHANGED <<timer, ctor, pool, state, obj, created, discards, window, missed, quiet,
                   afterClose, wokenBy>>

\* lines 192-193
RelCheck2(t) ==
    /\ pc[t] = "r_check2"
    /\ NoReturn
    /\ IF is_open[state[t]]
       THEN /\ pc' = [pc EXCEPT ![t] = "r_put"]
            /\ UNCHANGED exc
       ELSE /\ pc' = [pc EXCEPT ![t] = "r_discard"]
            /\ exc' = [exc EXCEPT ![t] = "PoolClosedError"]
    /\ Solo(t)
    /\ UNCHANGED <<timer, ctor, pool, state, obj, created, discards, window, missed, quiet,
                   afterClose, wokenBy>>

\* line 195
RelPut(t) ==
    /\ pc[t] = "r_put"
    /\ NoReturn
    /\ idle' = [idle EXCEPT ![state[t]] = QueuePut(idle[state[t]], obj[t])]
    /\ pc' = [pc EXCEPT ![t] = "r_notify"]
    /\ Solo(t)
    /\ UNCHANGED <<timer, ctor, max_size, self_state, nextGen, is_open, count, state, obj, exc,
                   created, discards, window, missed, quiet, afterClose, wokenBy>>

\* lines 197-202: discard(); an exception it raises is logged and dropped
RelDiscard(t) ==
    /\ pc[t] = "r_discard"
    /\ NoReturn
    /\ discards' = [discards EXCEPT ![obj[t]] = discards[obj[t]] + 1]
    /\ \E raised \in BOOLEAN :
          IF DiscardPropagates(raised)
          THEN /\ pc' = [pc EXCEPT ![t] = "r_notify"]
               /\ exc' = [exc EXCEPT ![t] = "DiscardError"]
          ELSE /\ pc' = [pc EXCEPT ![t] = "r_count"]
               /\ UNCHANGED exc
    /\ Solo(t)
    /\ UNCHANGED <<timer, ctor, pool, state, obj, created, window, missed, quiet, afterClose, wokenBy>>

\* Mutant: the unit is given back to the active generation, not to the one
\* captured at acquire entry.
RelCountActive(t) ==
    /\ pc[t] = "r_count"
    /\ NoReturn
    /\ count' = [count EXCEPT ![self_state] = SemRelease(count[self_state], max_size).value]
    /\ exc' = [exc EXCEPT ![t] =
                 IF SemRelease(count[self_state], max_size).ok THEN exc[t] ELSE "ValueError"]
    /\ pc' = [pc EXCEPT ![t] = "r_notify"]
    /\ Solo(t)
    /\ UNCHANGED <<timer, ctor, max_size, self_state, nextGen, is_open, idle, state, obj,
                   created, discards, window, missed, quiet, afterClose, wokenBy>>

\* line 203; a ValueError of the BoundedSemaphore would leave the except block
RelCount(t) ==
    /\ pc[t] = "r_count"
    /\ NoReturn
    /\ count' = [count EXCEPT ![state[t]] = SemRelease(count[state[t]], max_size).value]
    /\ exc' = [exc EXCEPT ![t] =
                 IF SemRelease(count[state[t]], max_size).ok THEN exc[t] ELSE "ValueError"]
    /\ pc' = [pc EXCEPT ![t] = "r_notify"]
    /\ Solo(t)
    /\ UNCHANGED <<timer, ctor, max_size, self_state, nextGen, is_open, idle, state, obj,
                   created, discards, window, missed, quiet, afterClose, wokenBy>>

\* lines 204-206, notify(): thread t leaves the release and waiter w (0: nobody
\* waits) is woken: it re-takes the lock, leaves the with block and is back at
\* the loop's head (line 155).
NotifyOne(t, w) ==
    /\ pc' = [u \in Threads |->
                IF u = t THEN "ready" ELSE IF u = w THEN "a_check" ELSE pc[u]]
    /\ wokenBy' = [u \in Threads |->
                     IF u = w /\ exc[t] = "none" THEN obj[t] ELSE wokenBy[u]]
    /\ missed' = [u \in Threads |->
                    IF u = w THEN FALSE
                    ELSE IF pc[u] = "a_wait" /\ t \in window[u] THEN TRUE
                    ELSE missed[u]]
    /\ window' = [u \in Threads |-> window[u] \ {t}]

\* lines 204-206: the finally block; an exception that left the except block
\* is raised to the borrower after it
RelNotify(t) ==
    /\ pc[t] = "r_notify"
    /\ IF Waiters(state[t]) = {}
       THEN NotifyOne(t, 0)
       ELSE \E w \in Waiters(state[t]) : NotifyOne(t, w)
    /\ Returns(t, IF exc[t] \in {"DiscardError", "ValueError"}
                  THEN "release_raised" ELSE "released")
    /\ obj' = [obj EXCEPT ![t] = 0]
    /\ exc' = [exc EXCEPT ![t] = "none"]
    /\ state' = [state EXCEPT ![t] = 0]
    /\ Solo(t)
    /\ UNCHANGED <<timer, ctor, pool, created, discards, quiet, afterClose>>

\* ------------------------------------------------------------------ specification

Next ==
    \E t \in Threads :
        \/ OpenRead(t)
        \/ OpenSet(t)
        \/ CloseRead(t)
        \/ CloseCheck(t)
        \/ CloseInit(t)
        \/ CloseClear(t)
        \/ CloseLoop(t)
        \/ CloseTry(t)
        \/ AcqStart(t)
        \/ AcqCheck(t)
        \/ AcqGet(t)
        \/ AcqCap(t)
        \/ AcqCreateOk(t)
        \/ AcqCreateRaise(t)
        \/ AcqCreateFail(t)
        \/ AcqWait(t)
        \/ RelCheck1(t)
        \/ RelRecycle(t)
        \/ RelCheck2(t)
        \/ RelPut(t)
        \/ RelDiscard(t)
        \/ RelCount(t)
        \/ RelNotify(t)

Spec == Init /\ [][Next]_vars

\* The steps a thread takes by itself once it is inside a call.  Starting a
\* call (OpenRead, CloseRead, AcqStart) and leaving the borrowing scope
\* (RelCheck1) are the caller's choice.
Internal(t) ==
    \/ OpenSet(t)
    \/ CloseCheck(t)
    \/ CloseInit(t)
    \/ CloseClear(t)
    \/ CloseLoop(t)
    \/ CloseTry(t)
    \/ AcqCheck(t)
    \/ AcqGet(t)
    \/ AcqCap(t)
    \/ AcqCreateOk(t)
    \/ AcqCreateRaise(t)
    \/ AcqCreateFail(t)
    \/ AcqWait(t)
    \/ RelRecycle(t)
    \/ RelCheck2(t)
    \/ RelPut(t)
    \/ RelDiscard(t)
    \/ RelCount(t)
    \/ RelNotify(t)

\* Threads are scheduled by the operating system: a thread that can take its
\* next step inside a call eventually takes it.
FairSpec == Spec /\ \A t \in Threads : WF_vars(Internal(t))

\* ------------------------------------------------------------------ WheelTimer

\* The variables of the object pool.
object_pool == <<ctor, max_size, self_state, nextGen, is_open, count, idle, pc, state,
                 obj, exc, created, discards, last, window, missed, quiet, afterClose,
                 wokenBy, soloist>>

\* The delays given to add_task.
Delays == (-1)..MaxDelay

\* A list object is alive while a slot, the timer thread or a caller refers to it.
Referenced(l) ==
    \/ \E s \in DOMAIN slots : slots[s] = l
    \/ tasks_to_run = l
    \/ \E t \in Threads : append_to[t] = l

\* The list object that the expression `[]` creates.
NewList == CHOOSE l \in ListIds : ~Referenced(l) /\ \A m \in ListIds : m < l => Referenced(m)

\* WheelTimer(ticks_per_slot, num_slots), lines 16-21: an empty list per slot,
\* tick 0, and the timer thread started.
WheelTimerNew ==
    /\ ticks_per_slot \in 1..MaxTicksPerSlot
    /\ num_slots \in 1..MaxSlots
    /\ slots = [s \in 0..(num_slots - 1) |-> s + 1]
    /\ lists = [l \in ListIds |-> <<>>]
    /\ current_tick = 0
    /\ wt_pc = "w_load"
    /\ tasks_to_run = 0
    /\ iter = 0
    /\ add_pc = [t \in Threads |-> "ready"]
    /\ slot = [t \in Threads |-> 0]
    /\ append_to = [t \in Threads |-> 0]
    /\ task = [t \in Threads |-> 0]
    /\ next_task = 1
    /\ runs = [k \in Tasks |-> 0]

\* A timer, and a pool that no thread uses.
WheelInit ==
    /\ PoolNew
    /\ ctor.arg = [given |-> TRUE, value |-> 1]
    /\ WheelTimerNew

\* line 30: tasks_to_run refers to the list object of the current slot
RunLoad ==
    /\ wt_pc = "w_load"
    /\ tasks_to_run' = slots[current_tick]
    /\ iter' = 0
    /\ wt_pc' = "w_for"
    /\ UNCHANGED <<object_pool, ticks_per_slot, num_slots, slots, lists, current_tick,
                   add_pc, slot, append_to, task, next_task, runs>>

\* lines 31-32: the list iterator yields the next item of the list object as it
\* is now, items appended meanwhile included, and the task is called; when there
\* is none the loop ends
RunFor ==
    /\ wt_pc = "w_for"
    /\ IF iter < Len(lists[tasks_to_run])
       THEN /\ runs' = [runs EXCEPT ![lists[tasks_to_run][iter + 1]] = @ + 1]
            /\ iter' = iter + 1
            /\ UNCHANGED wt_pc
       ELSE /\ wt_pc' = "w_clear"
            /\ UNCHANGED <<runs, iter>>
    /\ UNCHANGED <<object_pool, ticks_per_slot, num_slots, slots, lists, current_tick,
                   tasks_to_run, add_pc, slot, append_to, task, next_task>>

\* line 33: the slot gets a new, empty list object
RunClear ==
    /\ wt_pc = "w_clear"
    /\ slots' = [slots EXCEPT ![current_tick] = NewList]
    /\ lists' = [lists EXCEPT ![NewList] = <<>>]
    /\ wt_pc' = "w_advance"
    /\ UNCHANGED <<object_pool, ticks_per_slot, num_slots, current_tick, tasks_to_run,
                   iter, add_pc, slot, append_to, task, next_task, runs>>

\* lines 34-35: advance, sleep, and start over
RunAdvance ==
    /\ wt_pc = "w_advance"
    /\ current_tick' = (current_tick + 1) % num_slots
    /\ wt_pc' = "w_load"
    /\ UNCHANGED <<object_pool, ticks_per_slot, num_slots, slots, lists, tasks_to_run,
                   iter, add_pc, slot, append_to, task, next_task, runs>>

\* add_task(task, delay), lines 38-40: the slot is computed from current_tick
AddSlot(t, delay) ==
    /\ add_pc[t] = "ready"
    /\ next_task <= MaxTasks
    /\ task' = [task EXCEPT ![t] = next_task]
    /\ next_task' = next_task + 1
    /\ slot' = [slot EXCEPT ![t] =
                  (current_tick + ((IF delay < 0 THEN 0 ELSE delay) \div ticks_per_slot))
                      % num_slots]
    /\ add_pc' = [add_pc EXCEPT ![t] = "a_slots"]
    /\ UNCHANGED <<object_pool, ticks_per_slot, num_slots, slots, lists, current_tick,
                   wt_pc, tasks_to_run, iter, append_to, runs>>

\* line 41, self.slots[slot]: the list object that is in the slot now
AddLoad(t) ==
    /\ add_pc[t] = "a_slots"
    /\ append_to' = [append_to EXCEPT ![t] = slots[slot[t]]]
    /\ add_pc' = [add_pc EXCEPT ![t] = "a_append"]
    /\ UNCHANGED <<object_pool, ticks_per_slot, num_slots, slots, lists, current_tick,
                   wt_pc, tasks_to_run, iter, slot, task, next_task, runs>>

\* line 41, .append(task) on that list object, and return
AddAppend(t) ==
    /\ add_pc[t] = "a_append"
    /\ lists' = [lists EXCEPT ![append_to[t]] = Append(@, task[t])]
    /\ append_to' = [append_to EXCEPT ![t] = 0]
    /\ task' = [task EXCEPT ![t] = 0]
    /\ slot' = [slot EXCEPT ![t] = 0]
    /\ add_pc' = [add_pc EXCEPT ![t] = "ready"]
    /\ UNCHANGED <<object_pool, ticks_per_slot, num_slots, slots, current_tick,
                   wt_pc, tasks_to_run, iter, next_task, runs>>

WheelNext ==
    \/ RunLoad
    \/ RunFor
    \/ RunClear
    \/ RunAdvance
    \/ \E t \in Threads :
          \/ \E delay \in Delays : AddSlot(t, delay)
          \/ AddLoad(t)
          \/ AddAppend(t)

WheelSpec == WheelInit /\ [][WheelNext]_vars

\* The timer thread keeps running (its sleep ends), and a caller inside
\* add_task finishes the call.
WheelFairSpec ==
    /\ WheelSpec
    /\ WF_vars(RunLoad \/ RunFor \/ RunClear \/ RunAdvance)
    /\ \A t \in Threads : WF_vars(AddLoad(t) \/ AddAppend(t))

\* ------------------------------------------------------------------ claims

\* The positions at which a thread owns the object in obj[t]: from the return of
\* acquire to the idle.put or the discard() of the release.
Borrowing(t) == pc[t] \in {"holding", "r_recycle", "r_check2", "r_put", "r_discard"}

Borrowers(g) == {t \in Threads : Borrowing(t) /\ state[t] = g}

InIdle(o, g) == \E i \in 1..Len(idle[g]) : idle[g][i] = o

\* Occurrences of object o in the idle queues of all generations.
IdleCopies(o) ==
    Cardinality({p \in Gens \X (1..MaxObjects) :
                    p[2] <= Len(idle[p[1]]) /\ idle[p[1]][p[2]] = o})

\* Live objects of generation g: idle ones plus borrowed ones.
Live(g) == Len(idle[g]) + Cardinality(Borrowers(g))

Discarded == {o \in Objects : discards[o] > 0}

\* ---- C1
\* C1: in every reachable state, for each generation, the number of idle
\* objects plus the number of borrowed objects is at most max_size, whatever
\* the interleaving of acquires and releases, failed recycles and failed
\* creates included.
C1_LiveWithinMaxSize == \A g \in Gens : Live(g) <= max_size

\* A full pool of two, one object idle and one borrowed, after a recycle failure.
C1_Witness ==
    /\ max_size = 2
    /\ nextGen = 1
    /\ Len(idle[0]) = 1
    /\ Cardinality(Borrowers(0)) = 1
    /\ Discarded # {}

\* ---- C2
\* C2: in every reachable state each object is owned by at most one of: an
\* idle queue (once), one borrower.
C2_SingleOwner ==
    \A o \in Objects :
        Cardinality({t \in Threads : Borrowing(t) /\ obj[t] = o}) + IdleCopies(o) <= 1

\* Two borrowers and an idle object at once, after a close() and a reopening.
C2_Witness ==
    /\ nextGen > 1
    /\ \E t, u \in Threads : t # u /\ Borrowing(t) /\ Borrowing(u)
    /\ \E g \in Gens : idle[g] # <<>>

\* ---- C3
\* C3 (as claimed): a release that comes after an acquirer found the pool
\* exhausted, also one that comes before the acquirer has entered wait(), wakes
\* that acquirer.  Hence no state has an acquirer blocked in wait() on the open,
\* active generation that was notified before it waited, while an idle object or
\* a capacity unit is there for it and every other thread is outside the pool
\* (so that nothing will notify it again).
C3_NoLostWakeup ==
    \A t \in Threads :
        ~ /\ pc[t] = "waiting"
          /\ missed[t]
          /\ state[t] = self_state
          /\ is_open[state[t]]
          /\ (idle[state[t]] # <<>> \/ count[state[t]] > 0)
          /\ \A u \in Threads \ {t} : pc[u] = "ready"

\* ---- C4
\* The pool is open, nothing is released, create() never fails, nobody closes.
NextNoRelease ==
    \E t \in Threads :
        \/ OpenRead(t)
        \/ OpenSet(t)
        \/ (is_open[self_state] /\ AcqStart(t))
        \/ AcqCheck(t)
        \/ AcqGet(t)
        \/ AcqCap(t)
        \/ AcqCreateOk(t)
        \/ AcqWait(t)

SpecNoRelease == Init /\ [][NextNoRelease]_vars

Holders == {t \in Threads : pc[t] = "holding"}

C4_State ==
    \* nobody holds more than the pool allows, and the held objects differ
    /\ Cardinality(Holders) <= max_size
    /\ \A t, u \in Holders : t # u => obj[t] # obj[u]
    \* an acquirer blocks only when max_size others have got their unit
    /\ \A t \in Threads :
          pc[t] \in {"a_wait", "waiting"} =>
             Cardinality({u \in Threads : pc[u] \in {"a_create", "holding"}}) = max_size
    \* no acquire raises
    /\ last.outcome \notin {"PoolClosedError", "PoolFullError", "ValueError"}

\* C4: with the pool open, create() never failing and no release, at most
\* max_size acquirers hold an object, each a different one, no acquirer blocks
\* before max_size others have reserved their unit, no acquire raises, and a
\* blocked acquirer stays blocked.
C4_ExactlyMaxSizeAdmitted ==
    /\ []C4_State
    /\ [][\A t \in Threads : pc[t] = "waiting" => pc'[t] = "waiting"]_vars

\* Two holders of a pool of two, and a third acquirer blocked.
C4_Witness ==
    /\ max_size = 2
    /\ Cardinality(Holders) = 2
    /\ \E t \in Threads : pc[t] = "waiting"

\* ---- C5
C5_State ==
    \* discard() is called at most once on an object
    /\ \A o \in Objects : discards[o] <= 1
    \* after the discard of a release: called once, and the object is not idle
    /\ \A t \in Threads :
          (pc[t] = "r_count" \/ (pc[t] = "r_notify" /\ exc[t] # "none")) =>
             /\ discards[obj[t]] = 1
             /\ IdleCopies(obj[t]) = 0
    \* a discarded object is never handed out again
    /\ \A t \in Threads : pc[t] = "holding" => discards[obj[t]] = 0
    \* an acquire that runs alone never blocks
    /\ \A t \in Threads : soloist = t => pc[t] \notin {"a_wait", "waiting"}

C5_Step ==
    \A t \in Threads :
        \* the discard takes the object out of the live ones
        /\ (pc[t] = "r_discard" /\ pc'[t] # "r_discard" =>
               Live(state[t])' = Live(state[t]) - 1)
        \* line 203 gives back exactly one unit
        /\ (pc[t] = "r_count" /\ pc'[t] # "r_count" =>
               /\ count'[state[t]] = count[state[t]] + 1
               /\ exc'[t] = exc[t])

\* C5: a release whose recycle() raises calls discard() exactly once on the
\* object, does not put it into idle, lowers the live count by one and gives
\* back exactly one capacity unit; an acquire that follows alone does not
\* block, and is never handed the discarded object.
C5_DiscardReclaimsCapacity == []C5_State /\ [][C5_Step]_vars

\* A pool of one, never closed: object 1 was discarded after its recycle()
\* raised, and the acquire that followed alone holds the newly created object 2.
C5_Witness ==
    /\ max_size = 1
    /\ nextGen = 1
    /\ discards[1] = 1
    /\ \E t \in Threads : soloist = t /\ pc[t] = "holding" /\ obj[t] = 2

\* ---- C6
\* C6: an acquire that starts after close() has replaced the generation, with
\* no open() called since, never gets past the open check of line 156: it calls
\* no create(), holds no object and ends with PoolClosedError.
C6_ClosedRejectsAcquire ==
    \A t \in Threads :
        afterClose[t] =>
            /\ pc[t] \in {"a_check", "ready"}
            /\ obj[t] = 0
            /\ (last.thread = t => last.outcome = "PoolClosedError")

\* An acquire that started after close(), with no open() since, has raised
\* PoolClosedError.
C6_Witness ==
    \E t \in Threads :
        afterClose[t] /\ last = [thread |-> t, outcome |-> "PoolClosedError"]

\* ---- C7
\* C7 (as claimed): once close() has replaced the generation and is about to
\* clear its flag, every object that is idle in the closed generation gets
\* exactly one discard() and the closed generation's idle queue becomes empty.
C7_CloseDiscardsIdle ==
    \A g \in Gens : \A o \in Objects :
        (InIdle(o, g) /\ \E t \in Threads : pc[t] = "c_clear" /\ state[t] = g)
            ~> (discards[o] = 1 /\ idle[g] = <<>>)

\* ---- C8
\* C8 (as claimed): an acquirer that is blocked in the wait of a generation
\* when close() clears that generation's flag is eventually woken, and its
\* acquire fails with PoolClosedError.
C8_WaitersWokenOnClose ==
    \A t \in Threads :
        (pc[t] = "waiting" /\ \E c \in Threads : pc[c] = "c_clear" /\ state[c] = state[t])
            ~> (last = [thread |-> t, outcome |-> "PoolClosedError"])

\* ---- C9
\* An acquire that finds idle non-empty at lines 160-163 returns the head of
\* idle and calls no create().
C9_Step ==
    \A t \in Threads :
        pc[t] = "a_get" /\ pc'[t] # "a_get" /\ idle[state[t]] # <<>> =>
            /\ pc'[t] = "holding"
            /\ obj'[t] = Head(idle[state[t]])
            /\ idle'[state[t]] = Tail(idle[state[t]])
            /\ created' = created

\* While the generation was never replaced, create() has returned at most
\* max_size objects plus one per discarded object: with max_size = 1 and no
\* discard, every acquire returns the one instance.
C9_State == nextGen = 1 => created <= max_size + Cardinality(Discarded)

\* C9: an acquire that finds idle non-empty takes its object from idle and
\* calls no create(); no object is created while max_size undiscarded ones
\* exist, so acquire, release, acquire on a pool of one returns the same
\* instance, and a woken acquirer that finds the released object gets it.
C9_IdleReusedBeforeCreate == []C9_State /\ [][C9_Step]_vars

\* A blocked acquirer, woken by the release of object 1, holds object 1 and
\* create() was called once.
C9_Witness ==
    /\ max_size = 1
    /\ created = 1
    /\ \E t \in Threads : pc[t] = "holding" /\ wokenBy[t] = 1 /\ obj[t] = 1

\* ---- C10
\* C10: no release raises to the borrower, whether the pool is open or closed,
\* recycle() returns or raises, discard() returns or raises.
C10_ReleaseNeverRaises == last.outcome # "release_raised"

\* A release on a closed generation, which discarded its object, has returned.
C10_Witness ==
    /\ last.outcome = "released"
    /\ nextGen > 1
    /\ \E o \in Objects : discards[o] = 1 /\ IdleCopies(o) = 0

\* ---- C11
\* The acquire whose create() raises: between the reservation of line 168 and
\* the raise of line 175 it holds no object and has put nothing into idle.
C11_State ==
    \A t \in Threads :
        pc[t] \in {"a_create", "a_fail"} => obj[t] = 0

C11_Step ==
    \A t \in Threads :
        \* line 168 took exactly one unit
        /\ (pc[t] = "a_cap" /\ pc'[t] = "a_create" =>
               count'[state[t]] = count[state[t]] - 1)
        \* create() raising changes neither the counter nor idle
        /\ (pc[t] = "a_create" /\ pc'[t] = "a_fail" =>
               /\ count' = count
               /\ idle' = idle
               /\ created' = created)
        \* lines 174-175 give exactly that unit back and raise PoolFullError;
        \* the loop is not entered again
        /\ (pc[t] = "a_fail" /\ pc'[t] # "a_fail" =>
               /\ count'[state[t]] = count[state[t]] + 1
               /\ \A g \in Gens \ {state[t]} : count'[g] = count[g]
               /\ idle' = idle
               /\ created' = created
               /\ obj'[t] = 0
               /\ pc'[t] = "ready"
               /\ last' = [thread |-> t, outcome |-> "PoolFullError"])

\* C11: when create() raises after line 168 reserved a unit, the acquire gives
\* exactly that unit back (its net effect on the capacity counter is zero),
\* records no object as idle or borrowed, and ends with PoolFullError without
\* entering the loop again.
C11_CreateFailureReleasesUnit == []C11_State /\ [][C11_Step]_vars

\* An acquire that ran alone on an open, unused pool has raised PoolFullError
\* and the counter is back at max_size.
C11_Witness ==
    /\ \E t \in Threads :
          soloist = t /\ last = [thread |-> t, outcome |-> "PoolFullError"]
    /\ is_open[self_state]
    /\ count[self_state] = max_size
    /\ created = 0

\* ---- C12
C12_Step ==
    \A t \in Threads :
        \* line 128 only reads self.__state
        /\ (pc[t] = "ready" /\ pc'[t] = "c_check" =>
               /\ UNCHANGED <<pool, discards>>
               /\ \A u \in Threads \ {t} : pc'[u] = pc[u])
        \* lines 130-131 on a generation whose flag is not set: return
        /\ (pc[t] = "c_check" /\ ~is_open[state[t]] /\ pc'[t] # "c_check" =>
               /\ pc'[t] = "ready"
               /\ last' = [thread |-> t, outcome |-> "close_noop"]
               /\ UNCHANGED <<pool, discards>>
               /\ \A u \in Threads \ {t} : pc'[u] = pc[u])

\* C12: a close() that finds the flag of the generation it read not set
\* returns at line 131: the active generation is not replaced, no flag, idle
\* queue or capacity counter changes, discard() is not called and no thread
\* blocked in wait() is woken.
C12_CloseOnClosedIsNoop == [][C12_Step]_vars

\* A close() on an already closed pool has returned; the closed generation
\* still has its idle object and nobody was woken.
C12_Witness ==
    /\ last.outcome = "close_noop"
    /\ nextGen = 2
    /\ ~is_open[self_state]
    /\ idle[0] # <<>>
    /\ \E w \in Threads : pc[w] = "waiting"

\* ---- C13
\* C13 (as claimed): a Pool constructed without a max_size argument is
\* constructed, and its max_size is the default, 10.
C13_DefaultMaxSize ==
    ~ctor.arg.given => (ctor.raised = "none" /\ max_size = DEFAULT_SIZE)

\* ---- C14
\* C14 (as claimed): a close() that found the pool open (it is past the check of
\* line 130) eventually leaves its loop, notifies and returns to its caller.
C14_CloseTerminates ==
    \A t \in Threads : (pc[t] = "c_init") ~> (pc[t] = "ready")

\* ---- C15
\* C15 (as claimed): a release on a generation that has been closed goes to
\* the discard path at whichever point it meets the closed flag, and no object
\* is ever put into the idle queue of a closed generation: not when close()
\* ran before the release, not when it ran during recycle(), not when it ran
\* between the check of line 192 and the put of line 195.
C15_Step ==
    \A t \in Threads :
        /\ (pc[t] \in {"holding", "r_check2"} /\ pc'[t] # pc[t] /\ ~is_open[state[t]] =>
               pc'[t] = "r_discard")
        /\ (pc[t] = "r_put" /\ pc'[t] # "r_put" =>
               \/ is_open[state[t]]
               \/ (idle' = idle /\ pc'[t] = "r_discard"))

C15_ReleaseAfterCloseDiscards == [][C15_Step]_vars

\* ---- C16
\* C16 (as claimed): in every reachable state the objects borrowed from any
\* generation plus the objects idle in the active generation number at most
\* max_size.
C16_TotalLiveWithinMaxSize ==
    Cardinality({t \in Threads : Borrowing(t)}) + Len(idle[self_state]) <= max_size

\* ---- C17
\* C17 (as claimed): when an acquire has just failed in create() and given its
\* unit back, no acquirer that was already blocked in wait() is left blocked
\* on the open, active generation with a capacity unit free and every other
\* thread outside the pool.
C17_CreateFailureWakesWaiter ==
    \A t \in Threads :
        ~ /\ pc[t] = "waiting"
          /\ last.outcome = "PoolFullError"
          /\ state[t] = self_state
          /\ is_open[state[t]]
          /\ count[state[t]] > 0
          /\ \A u \in Threads \ {t} : pc[u] = "ready"

\* ---- C18
\* C18 (as claimed): a flag is set only on the generation that is active at
\* that moment.  A generation whose flag close() has cleared was replaced
\* before (line 133 precedes line 134) and is never active again, so its flag
\* is never set again.
C18_ClosedStaysClosed ==
    [][\A g \in Gens : ~is_open[g] /\ is_open'[g] => g = self_state]_vars

\* ---- C19
\* The threads that hold a reserved unit of generation g without an object:
\* between line 168 and the end of create(), and between discard() and line 203.
Reserved(g) ==
    {t \in Threads : pc[t] \in {"a_create", "a_fail", "r_count"} /\ state[t] = g}

\* C19: for every generation the capacity counter stays within 0..max_size;
\* every unit missing from it is held by a live object of that generation or
\* by a thread that reserved it on that generation and has not given it back
\* yet; no release of the BoundedSemaphore raises ValueError, whatever the
\* interleaving with close() and open().
C19_CapacityCounterInRange ==
    /\ \A g \in Gens :
          /\ count[g] \in 0..max_size
          /\ count[g] + Live(g) + Cardinality(Reserved(g)) = max_size
    /\ last.outcome # "ValueError"
    /\ \A t \in Threads : exc[t] # "ValueError"

\* After close() and open(): a release on the old generation has discarded its
\* object and given the unit back to the old counter, while a unit of the new
\* generation's counter is taken.
C19_Witness ==
    /\ nextGen > 1
    /\ last.outcome = "released"
    /\ \E o \in Objects : discards[o] = 1
    /\ count[0] = max_size
    /\ is_open[self_state]
    /\ count[self_state] < max_size

\* ---- C20
\* The add_task call that passed task k has returned.
Added(k) == k < next_task /\ \A t \in Threads : task[t] # k

\* C20 (as claimed): a task is never called twice, and every task whose
\* add_task has returned is eventually called, once.
C20_TaskRunsExactlyOnce ==
    /\ [](\A k \in Tasks : runs[k] <= 1)
    /\ \A k \in Tasks : Added(k) ~> (runs[k] = 1)

====
